---- MODULE Spec2Model ----
(***************************************************************************)
(* A model of frender.py: one run of main() over a small file system.      *)
(* The run is a sequence of steps (validate the selection, read the        *)
(* persisted configuration, collect files, load the context, and per file  *)
(* set up the environment, render and write).  Paths are pathlib paths:    *)
(* an absolute flag and a sequence of parts, joined and resolved the way   *)
(* pathlib and the operating system do.                                    *)
(***************************************************************************)
EXTENDS Integers, Sequences, FiniteSets, TLC

\* ------------------------------------------------------------------ bounds
\* longest comma list given to -l/--list
MaxList == 2

\* ------------------------------------------------------------------- paths
\* An option value: k = "none" (option absent, Python None), "empty" (the
\* empty string) or "path" (a pathlib.Path with its parts).
NoPath == [k |-> "none", abs |-> FALSE, parts |-> <<>>]
EmptyStr == [k |-> "empty", abs |-> FALSE, parts |-> <<>>]
Rel(parts) == [k |-> "path", abs |-> FALSE, parts |-> parts]
Abs(parts) == [k |-> "path", abs |-> TRUE, parts |-> parts]

\* bool(x) of an option value: None and "" are falsy
Truthy(v) == v.k = "path"

\* the working directory of the run, as a location (parts from the root)
Cwd == <<"w">>

\* pathlib's p / q: an absolute right operand replaces the left one
Join(p, q) == IF q.abs THEN q ELSE [k |-> "path", abs |-> p.abs, parts |-> p.parts \o q.parts]

\* pathlib's p.name: the last part ("" when there is none)
Name(p) == IF p.parts = <<>> THEN "" ELSE p.parts[Len(p.parts)]

\* pathlib's p.parent
Parent(p) == IF p.parts = <<>> THEN p ELSE [p EXCEPT !.parts = SubSeq(p.parts, 1, Len(p.parts) - 1)]

\* p / name for a string name (p / "" is p)
JoinName(p, n) == IF n = "" THEN p ELSE Join(p, Rel(<<n>>))

IsPrefix(s, t) == Len(s) <= Len(t) /\ SubSeq(t, 1, Len(s)) = s

\* pathlib's p.relative_to(base); defined when CanRelativeTo holds,
\* otherwise pathlib raises ValueError
CanRelativeTo(p, base) == p.abs = base.abs /\ IsPrefix(base.parts, p.parts)
RelativeTo(p, base) == Rel(SubSeq(p.parts, Len(base.parts) + 1, Len(p.parts)))

\* The location a part sequence names, walked from a starting location:
\* ".." steps to the parent (the root is its own parent).
RECURSIVE Walk(_, _)
Walk(loc, parts) ==
    IF parts = <<>> THEN loc
    ELSE IF Head(parts) = ".."
         THEN Walk(IF loc = <<>> THEN loc ELSE SubSeq(loc, 1, Len(loc) - 1), Tail(parts))
         ELSE Walk(Append(loc, Head(parts)), Tail(parts))

\* the location the operating system resolves a path to
Resolve(p) == Walk(IF p.abs THEN <<>> ELSE Cwd, p.parts)

\* the locations of the lexical prefixes of a path that are proper
\* ancestors of its last part (the directories the OS walks through)
PrefixLocs(p) == {Resolve([p EXCEPT !.parts = SubSeq(p.parts, 1, n)]) : n \in 0..(Len(p.parts) - 1)}

\* Path.is_file(): every directory on the way exists and the target is a file
IsFile(fsys, dset, p) == PrefixLocs(p) \subseteq dset /\ Resolve(p) \in DOMAIN fsys

\* Path.is_dir()
IsDir(dset, p) == PrefixLocs(p) \subseteq dset /\ Resolve(p) \in dset

\* Path.exists()
Exists(fsys, dset, p) == IsFile(fsys, dset, p) \/ IsDir(dset, p)

\* ---------------------------------------------------------------- contents
\* Template texts.  A template may render to text that is itself a template
\* (e.g. {{ '{{ x }}' }}), so rendering is not idempotent; "bad" has a
\* syntax error.  Context, macro and filter sources parse or do not.
RenderFails(c) == c \in {"bad", "macro_bad", "py_bad"}
RenderText(c) ==
    CASE c = "tpl2" -> "tpl1"
      [] c = "tpl1" -> "text"
      [] OTHER -> c

\* ------------------------------------------------------------- file system
\* The directories that exist when the run starts.
Dirs0 == {<<>>, <<"w">>, <<"w", "s">>, <<"w", "s", "t">>, <<"w", "m1">>, <<"w", "m2">>, <<"w", "f1">>}

\* The regular files that exist when the run starts, with their contents.
\* ca, cb: template texts; ce: the text of context file e2; cm: the macro
\* file of m2; hasEnv: whether ./.env exists; fl: the lines of list file l.
FileLocs(hasEnv) ==
    {<<"w", "a">>, <<"w", "s", "a">>, <<"w", "s", "b">>, <<"w", "s", "t", "a">>,
     <<"w", "l">>, <<"w", "e1">>, <<"w", "e2">>,
     <<"w", "m1", "k.j2">>, <<"w", "m2", "k.j2">>, <<"w", "f1", "g.py">>}
    \cup (IF hasEnv THEN {<<"w", ".env">>} ELSE {})

Fs0(ca, cb, ce, cm, hasEnv) ==
    [l \in FileLocs(hasEnv) |->
        CASE l = <<"w", "a">> -> ca
          [] l = <<"w", "s", "a">> -> "tpl1"
          [] l = <<"w", "s", "b">> -> cb
          [] l = <<"w", "s", "t", "a">> -> "tpl1"
          [] l = <<"w", "l">> -> "text"
          [] l = <<"w", "e1">> -> "ctx_ok"
          [] l = <<"w", "e2">> -> ce
          [] l = <<"w", ".env">> -> "ctx_ok"
          [] l = <<"w", "m1", "k.j2">> -> "macro_ok"
          [] l = <<"w", "m2", "k.j2">> -> cm
          [] l = <<"w", "f1", "g.py">> -> "py_ok"]

\* ------------------------------------------------------------------- state
VARIABLES
    cli,        \* the parsed command line (argparse's namespace as parsed)
    args,       \* the namespace as main() updates it (lines 320-323)
    world,      \* what the run finds outside: persisted config, list file, write permissions
    fs0,        \* the files and contents when the run starts
    fs,         \* the files and their contents
    dirs,       \* the directories
    pc,         \* main()'s position
    files,      \* the sequence collect_files returned
    context,    \* the context mapping: where it was loaded from
    idx,        \* the per-file loop's position in files (1-based)
    env,        \* the jinja environment of the current file
    rendered,   \* the text render_file returned for the current file
    stdout,     \* what was written to standard output
    stderr,     \* what was written to standard error
    exitCode,   \* the process's exit code (-1 while running)
    diag,       \* the path the diagnostic line on standard error names
    log         \* history: the calls main() made, in order

vars == <<cli, args, world, fs0, fs, dirs, pc, files, context, idx, env, rendered, stdout, stderr, exitCode, diag, log>>

\* ------------------------------------------------------- the command line
NoList == [k |-> "none", items |-> <<>>]
CommaList(items) == [k |-> "some", items |-> items]

\* the paths a comma list or a list file may name
ListPaths == {Rel(<<"a">>), Rel(<<"s", "a">>), Rel(<<"s", "b">>), Rel(<<"x">>)}
CommaLists == {CommaList(q) : q \in UNION {[1..n -> ListPaths] : n \in 0..MaxList}}

InputVals == {Rel(<<"a">>), Rel(<<"s", "a">>), Abs(<<"w", "a">>), Rel(<<"x">>)}
FileListVals == {Rel(<<"l">>), Rel(<<"nolist">>)}
DirVals == {Rel(<<"s">>), Abs(<<"w", "s">>), Rel(<<"s", "t">>), Rel(<<"nodir">>)}
OutputVals == {NoPath, Rel(<<"o">>), Rel(<<"s">>)}

\* what list file l may hold, one path per line
FlistChoices ==
    {<<Rel(<<"s", "a">>), Rel(<<"s", "b">>)>>,
     <<Abs(<<"w", "a">>), Rel(<<"s", "a">>)>>,
     <<Rel(<<"..", "w", "a">>), Rel(<<"a">>)>>,
     <<Rel(<<"a">>), Rel(<<"x">>)>>}

\* the persisted configuration ~/.frender/config
NoConfig == [exists |-> FALSE, ENV_FILE |-> NoPath, MACROS_DIR |-> NoPath, FILTERS_DIR |-> NoPath]
Configs ==
    {NoConfig} \cup
    [exists : {TRUE},
     ENV_FILE : {NoPath, EmptyStr, Rel(<<"e2">>)},
     MACROS_DIR : {NoPath, EmptyStr, Rel(<<"m2">>)},
     FILTERS_DIR : {NoPath, EmptyStr, Rel(<<"f1">>)}]
SetupConfig == [exists |-> TRUE, ENV_FILE |-> Rel(<<"e2">>), MACROS_DIR |-> Rel(<<"m2">>), FILTERS_DIR |-> EmptyStr]

DefaultArgs ==
    [input_file |-> NoPath, list |-> NoList, file_list |-> NoPath, dir |-> NoPath,
     recursive |-> FALSE, exclude |-> {}, output |-> NoPath, single_dir |-> FALSE,
     overwrite |-> FALSE, env_file |-> NoPath, macros_dir |-> NoPath, filters_dir |-> NoPath]

DefaultWorld == [config |-> NoConfig, flist |-> <<Rel(<<"s", "a">>), Rel(<<"s", "b">>)>>, readable |-> TRUE, denied |-> {}]

\* command lines with exactly one input selection
OneSelection ==
    {[DefaultArgs EXCEPT !.input_file = v] : v \in InputVals}
    \cup {[DefaultArgs EXCEPT !.list = v] : v \in CommaLists}
    \cup {[DefaultArgs EXCEPT !.file_list = v] : v \in FileListVals}
    \cup {[DefaultArgs EXCEPT !.dir = d, !.recursive = r, !.exclude = x] :
            d \in DirVals, r \in BOOLEAN, x \in {{}, {"b"}, {"*"}}}

\* command lines with any number of input selections
AnySelection ==
    {[DefaultArgs EXCEPT !.input_file = i, !.list = l, !.file_list = f, !.dir = d] :
        i \in {NoPath, EmptyStr, Rel(<<"a">>)}, l \in {NoList, CommaList(<<Rel(<<"a">>)>>)},
        f \in {NoPath, Rel(<<"l">>)}, d \in {NoPath, Rel(<<"s">>)}}

\* the list file's lines and whether it can be read
ListFileWorlds(a) ==
    IF Truthy(a.file_list)
    THEN {[DefaultWorld EXCEPT !.flist = fl] : fl \in FlistChoices} \cup {[DefaultWorld EXCEPT !.readable = FALSE]}
    ELSE {DefaultWorld}

\* Runs that vary the selection and the placement.
InitPlacement ==
    /\ cli \in {[a EXCEPT !.output = o, !.overwrite = w, !.single_dir = sd] :
                a \in OneSelection, o \in OutputVals, w \in BOOLEAN, sd \in BOOLEAN}
    /\ world \in {[lw EXCEPT !.config = c, !.denied = dn] :
                lw \in ListFileWorlds(cli),
                c \in {NoConfig, SetupConfig},
                dn \in (IF Truthy(cli.output) \/ cli.overwrite THEN {{}, {<<"w", "o", "b">>, <<"w", "s", "b">>}} ELSE {{}})}
    /\ fs0 \in {Fs0(ca, cb, "ctx_ok", "macro_ok", FALSE) : ca \in {"tpl2", "bad"}, cb \in {"tpl1", "bad"}}

\* Runs that vary how many selections the command line gives.
InitUsage ==
    /\ cli \in {[a EXCEPT !.output = o] : a \in AnySelection, o \in {NoPath, Rel(<<"o">>)}}
    /\ world \in {[DefaultWorld EXCEPT !.config = c] : c \in {NoConfig, SetupConfig}}
    /\ fs0 = Fs0("tpl1", "tpl1", "ctx_ok", "macro_ok", FALSE)

\* Runs that vary the three configurable options and what they name.
InitOptions ==
    /\ cli \in {[DefaultArgs EXCEPT !.input_file = Rel(<<"a">>), !.env_file = e, !.macros_dir = m,
                                    !.filters_dir = f, !.output = o] :
                e \in {NoPath, EmptyStr, Rel(<<"e1">>)},
                m \in {NoPath, EmptyStr, Rel(<<"m1">>)},
                f \in {NoPath, Rel(<<"f1">>)},
                o \in {NoPath, Rel(<<"o">>)}}
    /\ world \in {[DefaultWorld EXCEPT !.config = c] : c \in Configs}
    /\ fs0 \in {Fs0("tpl1", "tpl1", "ctx_ok", "macro_ok", FALSE),
                Fs0("tpl1", "tpl1", "ctx_bad", "macro_ok", TRUE),
                Fs0("tpl1", "tpl1", "ctx_ok", "macro_bad", FALSE)}

\* Runs over two sources, one of which may lie in a directory that holds
\* a macro file of its own, with a macro directory whose file may not load.
InitExtensions ==
    /\ cli \in {[DefaultArgs EXCEPT !.list = CommaList(q), !.output = Rel(<<"o">>), !.macros_dir = m] :
                q \in {<<Rel(<<"m1", "k.j2">>), Rel(<<"a">>)>>,
                       <<Rel(<<"a">>), Rel(<<"m1", "k.j2">>)>>,
                       <<Rel(<<"a">>), Rel(<<"s", "a">>)>>},
                m \in {NoPath, Rel(<<"m1">>)}}
    /\ world \in {[DefaultWorld EXCEPT !.config = c] : c \in {NoConfig, SetupConfig}}
    /\ fs0 \in {Fs0("tpl1", "tpl1", "ctx_ok", cm, FALSE) : cm \in {"macro_ok", "macro_bad"}}

Init ==
    /\ (InitPlacement \/ InitUsage \/ InitOptions \/ InitExtensions)
    /\ args = cli
    /\ fs = fs0
    /\ dirs = Dirs0
    /\ pc = "validate"
    /\ files = <<>>
    /\ context = "unset"
    /\ idx = 0
    /\ env = "unset"
    /\ rendered = ""
    /\ stdout = <<>>
    /\ stderr = <<>>
    /\ exitCode = -1
    /\ diag = NoPath
    /\ log = <<>>

\* --------------------------------------------------------- file collection
\* fnmatch.fnmatch(name, pattern) for the patterns of the model: a literal
\* name, or "*" which matches every name
FnMatch(name, pat) == pat = "*" \/ pat = name

\* is_excluded(path, exclude_patterns)
is_excluded(p, pats) == \E pat \in pats : FnMatch(Name(p), pat)

\* dir_path.glob("*") (direct children) or dir_path.rglob("*") (the subtree),
\* kept when p.is_file(): each path is dir_path joined with the rest
GlobFiles(fsys, d, recursive) ==
    LET dl == Resolve(d)
    IN {Join(d, Rel(SubSeq(l, Len(dl) + 1, Len(l)))) :
            l \in {m \in DOMAIN fsys : /\ IsPrefix(dl, m)
                                       /\ Len(m) > Len(dl)
                                       /\ (recursive \/ Len(m) = Len(dl) + 1)}}

\* mutant: rglob is used whether or not --recursive is given
GlobEntries_AlwaysRecursive(fsys, dset, d, recursive) ==
    LET dl == Resolve(d)
    IN {Join(d, Rel(SubSeq(l, Len(dl) + 1, Len(l)))) :
            l \in {m \in DOMAIN fsys \cup dset : IsPrefix(dl, m) /\ Len(m) > Len(dl)}}

\* everything dir_path.glob("*") / rglob("*") yields, directories included
GlobEntries(fsys, dset, d, recursive) ==
    LET dl == Resolve(d)
    IN {Join(d, Rel(SubSeq(l, Len(dl) + 1, Len(l)))) :
            l \in {m \in DOMAIN fsys \cup dset : /\ IsPrefix(dl, m)
                                                 /\ Len(m) > Len(dl)
                                                 /\ (recursive \/ Len(m) = Len(dl) + 1)}}

\* what the directory branch of collect_files keeps, as a set: the entries
\* that are regular files and are not excluded
DirFound(a, fsys, dset) ==
    IF Truthy(a.dir) /\ IsDir(dset, a.dir)
    THEN {p \in GlobEntries(fsys, dset, a.dir, a.recursive) : IsFile(fsys, dset, p) /\ ~is_excluded(p, a.exclude)}
    ELSE {}

\* the orders in which the file system may enumerate a set of paths
Perms(S) == {q \in [1..Cardinality(S) -> S] : \A i, j \in 1..Cardinality(S) : q[i] = q[j] => i = j}

\* mutant: only the first path collected is checked to be a regular file
collect_files_FirstOnly(a, fsys, dset, w, order) ==
    LET f2 == IF a.list.k = "some" THEN a.list.items ELSE <<>>
        f3 == IF Truthy(a.file_list) THEN w.flist ELSE <<>>
        f4 == IF Truthy(a.dir) THEN order ELSE <<>>
        f1 == IF Truthy(a.input_file) THEN <<a.input_file>> ELSE <<>>
        all == f1 \o f2 \o f3 \o f4
    IN  IF all = <<>> \/ ~IsFile(fsys, dset, all[1])
        THEN [status |-> "render_error", files |-> <<>>, missing |-> IF all = <<>> THEN NoPath ELSE all[1]]
        ELSE [status |-> "ok", files |-> all, missing |-> NoPath]

\* collect_files(args): the four branches run in order, each raising at its
\* first missing path; order is the enumeration order of the directory.
\* status "render_error" is a RenderError, "unexpected" any other exception
\* (open() of a list file that cannot be read).
collect_files(a, fsys, dset, w, order) ==
    LET Err(kind, path) == [status |-> kind, files |-> <<>>, missing |-> path]
        FirstBad(q) == q[CHOOSE i \in 1..Len(q) : /\ ~IsFile(fsys, dset, q[i])
                                                   /\ \A j \in 1..(i - 1) : IsFile(fsys, dset, q[j])]
        f1 == IF Truthy(a.input_file) THEN <<a.input_file>> ELSE <<>>
        e1 == Truthy(a.input_file) /\ ~IsFile(fsys, dset, a.input_file)
        f2 == IF a.list.k = "some" THEN a.list.items ELSE <<>>
        e2 == \E i \in 1..Len(f2) : ~IsFile(fsys, dset, f2[i])
        hasList == Truthy(a.file_list)
        noList == hasList /\ ~IsFile(fsys, dset, a.file_list)
        u3 == hasList /\ ~noList /\ ~w.readable
        f3 == IF hasList /\ ~noList /\ ~u3 THEN w.flist ELSE <<>>
        e3 == \E i \in 1..Len(f3) : ~IsFile(fsys, dset, f3[i])
        e4 == Truthy(a.dir) /\ ~IsDir(dset, a.dir)
        f4 == IF Truthy(a.dir) /\ ~e4 THEN order ELSE <<>>
        all == f1 \o f2 \o f3 \o f4
    IN  IF e1 THEN Err("render_error", a.input_file)
        ELSE IF e2 THEN Err("render_error", FirstBad(f2))
        ELSE IF noList THEN Err("render_error", a.file_list)
        ELSE IF u3 THEN Err("unexpected", a.file_list)
        ELSE IF e3 THEN Err("render_error", FirstBad(f3))
        ELSE IF e4 THEN Err("render_error", a.dir)
        ELSE IF all = <<>> THEN Err("render_error", NoPath)
        ELSE [status |-> "ok", files |-> all, missing |-> NoPath]

\* -------------------------------------------------- configuration resolution
\* validate_input_sources: the number of truthy selections
NumSources(a) ==
    (IF Truthy(a.input_file) THEN 1 ELSE 0) + (IF a.list.k = "some" THEN 1 ELSE 0)
    + (IF Truthy(a.file_list) THEN 1 ELSE 0) + (IF Truthy(a.dir) THEN 1 ELSE 0)

\* mutant: validate_input_sources without its "no source" branch
SourcesValid_AtMostOne(a) == NumSources(a) <= 1

\* validate_input_sources accepts the command line
SourcesValid(a) == NumSources(a) = 1

\* config.get(key): None when there is no configuration file
ConfigGet(cfg, key) == IF cfg.exists THEN cfg[key] ELSE NoPath

\* mutant: the persisted configuration wins over the command line
ResolveEnvFile_ConfigFirst(given, cfgval) ==
    IF Truthy(cfgval) THEN cfgval ELSE IF Truthy(given) THEN given ELSE Rel(<<".env">>)

\* lines 320-321: args.env_file, else config ENV_FILE, else ".env"
ResolveEnvFile(given, cfgval) ==
    IF ~Truthy(given) THEN (IF Truthy(cfgval) THEN cfgval ELSE Rel(<<".env">>)) ELSE given

\* lines 322-323: args.macros_dir or config.get("MACROS_DIR") (likewise filters)
ResolveDir(given, cfgval) == IF Truthy(given) THEN given ELSE cfgval

\* lines 332-333: Path(x) if x else None
DirOrNone(v) == IF Truthy(v) THEN v ELSE NoPath

\* ------------------------------------------------------ context, environment
\* mutant: a loader failure is swallowed and gives the empty mapping
load_context_Swallow(fsys, dset, p) ==
    IF ~Exists(fsys, dset, p) THEN [status |-> "ok", ctx |-> "empty"]
    ELSE IF IsDir(dset, p) \/ fsys[Resolve(p)] = "ctx_bad" THEN [status |-> "ok", ctx |-> "empty"]
    ELSE [status |-> "ok", ctx |-> Name(p)]

\* load_context(path): "empty" when the path does not exist, "error" when
\* the loader fails (a directory, or text the format's parser rejects),
\* else the location the mapping was loaded from
load_context(fsys, dset, p) ==
    IF ~Exists(fsys, dset, p) THEN [status |-> "ok", ctx |-> "empty"]
    ELSE IF IsDir(dset, p) \/ fsys[Resolve(p)] = "ctx_bad" THEN [status |-> "error", ctx |-> "unset"]
    ELSE [status |-> "ok", ctx |-> Name(p)]

\* the files rglob("*.j2") / rglob("*.py") finds under a directory
ExtensionFiles(fsys, dset, d, names) ==
    IF Truthy(d) /\ IsDir(dset, d)
    THEN {p \in GlobFiles(fsys, d, TRUE) : Name(p) \in names}
    ELSE {}

\* register_macros loads a macro file by its path relative to macros_dir,
\* searched first in the template's directory, then in macros_dir
MacroSource(fsys, dset, src, m, p) ==
    LET shadow == Join(Parent(src), RelativeTo(p, m))
    IN IF IsFile(fsys, dset, shadow) THEN shadow ELSE p

\* mutant: a macro or filter file that fails to load is skipped
setup_environment_Swallow(fsys, dset, src, m, f) ==
    [status |-> "ok", env |-> "ready", failed |-> {}]

\* setup_environment(src, macros_dir, filters_dir): the environment, or a
\* RenderError when a macro or filter file fails to load
setup_environment(fsys, dset, src, m, f) ==
    LET macros == ExtensionFiles(fsys, dset, m, {"k.j2"})
        filters == ExtensionFiles(fsys, dset, f, {"g.py"})
        badm == {p \in macros : RenderFails(fsys[Resolve(MacroSource(fsys, dset, src, m, p))])}
        badf == {p \in filters : RenderFails(fsys[Resolve(p)])}
    IN IF badm # {} THEN [status |-> "error", env |-> "unset", failed |-> badm]
       ELSE IF badf # {} THEN [status |-> "error", env |-> "unset", failed |-> badf]
       ELSE [status |-> "ok", env |-> "ready", failed |-> {}]

\* render_file(src.name, env, context): the template is src.name looked up
\* in the loader's search path, src.parent
render_file(fsys, dset, src) ==
    LET tpl == JoinName(Parent(src), Name(src))
    IN IF ~IsFile(fsys, dset, tpl) \/ RenderFails(fsys[Resolve(tpl)])
       THEN [status |-> "error", text |-> ""]
       ELSE [status |-> "ok", text |-> RenderText(fsys[Resolve(tpl)])]

\* ---------------------------------------------------------- output placement
\* a line on standard output
OutLine(kind, text, src, dest) == [kind |-> kind, text |-> text, src |-> src, dest |-> dest]

\* an entry of the history
Ev(op, i) == [op |-> op, i |-> i, mode |-> "", dest |-> <<>>, text |-> "", ok |-> TRUE]
WriteEv(i, mode, dest, text, ok) == [op |-> "write", i |-> i, mode |-> mode, dest |-> dest, text |-> text, ok |-> ok]

\* mutant: write_rendered swallows the exception of a failed write
write_rendered_Swallow(st, w, src, text, dest) ==
    IF dest.k = "none"
    THEN [st EXCEPT !.stdout = Append(@, OutLine("content", text, NoPath, NoPath))]
    ELSE LET walk == PrefixLocs(dest)
             loc == Resolve(dest)
             newdirs == st.dirs \cup walk
         IN IF walk \cap DOMAIN st.fs # {} \/ loc \in newdirs \/ loc \in w.denied THEN st
            ELSE [st EXCEPT !.fs = [l \in DOMAIN st.fs \cup {loc} |-> IF l = loc THEN text ELSE st.fs[l]],
                            !.dirs = newdirs,
                            !.stdout = Append(@, OutLine("confirm", "", src, dest))]

\* write_rendered(src, rendered, dest) on st = [fs, dirs, stdout, status]:
\* dest None writes the text to standard output; otherwise the parents are
\* created, the text replaces the file and a confirmation line is printed.
\* mkdir fails when a parent is a regular file; write_text fails, at open(),
\* when dest is a directory or may not be written.
write_rendered(st, w, src, text, dest) ==
    IF dest.k = "none"
    THEN [st EXCEPT !.stdout = Append(@, OutLine("content", text, NoPath, NoPath))]
    ELSE LET walk == PrefixLocs(dest)
             loc == Resolve(dest)
             newdirs == st.dirs \cup walk
         IN IF walk \cap DOMAIN st.fs # {} THEN [st EXCEPT !.status = "render_error"]
            ELSE IF loc \in newdirs \/ loc \in w.denied
                 THEN [st EXCEPT !.dirs = newdirs, !.status = "render_error"]
            ELSE [st EXCEPT !.fs = [l \in DOMAIN st.fs \cup {loc} |-> IF l = loc THEN text ELSE st.fs[l]],
                            !.dirs = newdirs,
                            !.stdout = Append(@, OutLine("confirm", "", src, dest))]

\* mutant: the output-directory branch is an "if", not an "elif"
PlacementModes_NoElif(a) ==
    (IF a.overwrite THEN {"overwrite"} ELSE {})
    \cup (IF Truthy(a.output) THEN {"output"} ELSE {})
    \cup (IF ~a.overwrite /\ ~Truthy(a.output) THEN {"stdout"} ELSE {})

\* lines 340-362: which placement branches run for a file (if / elif / else)
PlacementModes(a) ==
    IF a.overwrite THEN {"overwrite"}
    ELSE IF Truthy(a.output) THEN {"output"}
    ELSE {"stdout"}

\* lines 346-350: flatten
Flatten(a) ==
    IF Truthy(a.input_file) \/ a.list.k = "some" THEN TRUE
    ELSE IF Truthy(a.file_list) \/ Truthy(a.dir) THEN a.single_dir
    ELSE FALSE

\* line 355: relative_to raises ValueError when src is not under args.dir
RelPathFails(a, src) == ~Flatten(a) /\ Truthy(a.dir) /\ ~CanRelativeTo(src, a.dir)

\* lines 352-356: the destination in output-directory mode
OutputDest(a, src) ==
    IF Flatten(a) THEN JoinName(a.output, Name(src))
    ELSE Join(a.output, IF ~Truthy(a.dir) THEN src ELSE RelativeTo(src, a.dir))

\* the destination of one placement branch
ModeDest(a, src, mode) ==
    CASE mode = "overwrite" -> src
      [] mode = "output" -> OutputDest(a, src)
      [] OTHER -> NoPath

\* one placement branch applied to st = [fs, dirs, stdout, status, log]
PlaceOne(st, a, w, i, src, text, mode) ==
    IF st.status # "ok" \/ mode \notin PlacementModes(a) THEN st
    ELSE IF mode = "output" /\ RelPathFails(a, src) THEN [st EXCEPT !.status = "unexpected"]
    ELSE LET dest == ModeDest(a, src, mode)
             r == write_rendered([fs |-> st.fs, dirs |-> st.dirs, stdout |-> st.stdout, status |-> "ok"],
                                 w, src, text, dest)
         IN [fs |-> r.fs, dirs |-> r.dirs, stdout |-> r.stdout, status |-> r.status,
             log |-> Append(st.log, WriteEv(i, mode, IF dest.k = "none" THEN <<>> ELSE Resolve(dest), text, r.status = "ok"))]

\* lines 339-362 for one file
PlaceFile(st, a, w, i, src, text) ==
    PlaceOne(PlaceOne(PlaceOne(st, a, w, i, src, text, "overwrite"), a, w, i, src, text, "output"),
             a, w, i, src, text, "stdout")

\* ---------------------------------------------------------------- the run
\* exit codes: sys.exit(1) for a RenderError (line 366), sys.exit(2) for any
\* other exception (line 369); argparse's parser.error() exits with 2
ExitOk == 0
ExitRenderError == 1
ExitUnexpected == 2
ExitUsage == 2

\* the exit code of a failure status
ExitCodeOf(status) == IF status = "render_error" THEN ExitRenderError ELSE ExitUnexpected

Die(line, code) ==
    /\ stderr' = Append(stderr, line)
    /\ exitCode' = code
    /\ pc' = "exit"

\* line 316: validate_input_sources(args, parser)
ValidateInputSources ==
    /\ pc = "validate"
    /\ log' = Append(log, Ev("validate", 0))
    /\ IF SourcesValid(args)
       THEN pc' = "config" /\ UNCHANGED <<stderr, exitCode>>
       ELSE Die("usage", ExitUsage)
    /\ UNCHANGED <<cli, args, world, fs0, fs, dirs, files, context, idx, env, rendered, stdout, diag>>

\* lines 318-323: load_frender_config() prints a line when the configuration
\* exists; the three options are then resolved
LoadFrenderConfig ==
    /\ pc = "config"
    /\ log' = Append(log, Ev("config", 0))
    /\ stdout' = IF world.config.exists THEN Append(stdout, OutLine("banner", "", NoPath, NoPath)) ELSE stdout
    /\ args' = [args EXCEPT !.env_file = ResolveEnvFile(args.env_file, ConfigGet(world.config, "ENV_FILE")),
                            !.macros_dir = ResolveDir(args.macros_dir, ConfigGet(world.config, "MACROS_DIR")),
                            !.filters_dir = ResolveDir(args.filters_dir, ConfigGet(world.config, "FILTERS_DIR"))]
    /\ pc' = "collect"
    /\ UNCHANGED <<cli, world, fs0, fs, dirs, files, context, idx, env, rendered, stderr, exitCode, diag>>

\* line 326: files = collect_files(args)
CollectFiles ==
    /\ pc = "collect"
    /\ log' = Append(log, Ev("collect", 0))
    /\ \E order \in Perms(DirFound(args, fs, dirs)) :
         LET r == collect_files(args, fs, dirs, world, order)
         IN IF r.status = "ok"
            THEN files' = r.files /\ pc' = "check" /\ UNCHANGED <<stderr, exitCode, diag>>
            ELSE files' = files /\ diag' = r.missing /\ Die(r.status, ExitCodeOf(r.status))
    /\ UNCHANGED <<cli, args, world, fs0, fs, dirs, context, idx, env, rendered, stdout>>

\* lines 328-329: several files need --overwrite or --output
CheckPlacement ==
    /\ pc = "check"
    /\ log' = Append(log, Ev("check", 0))
    /\ IF ~Truthy(args.output) /\ ~args.overwrite /\ Len(files) > 1
       THEN Die("usage", ExitUsage)
       ELSE pc' = "context" /\ UNCHANGED <<stderr, exitCode>>
    /\ UNCHANGED <<cli, args, world, fs0, fs, dirs, files, context, idx, env, rendered, stdout, diag>>

\* lines 331-335: the context is loaded and the loop starts
LoadContext ==
    /\ pc = "context"
    /\ log' = Append(log, Ev("context", 0))
    /\ LET r == load_context(fs, dirs, args.env_file)
       IN IF r.status = "ok"
          THEN context' = r.ctx /\ idx' = 1 /\ pc' = "setup" /\ UNCHANGED <<stderr, exitCode, diag>>
          ELSE UNCHANGED <<context, idx>> /\ diag' = args.env_file /\ Die("render_error", ExitRenderError)
    /\ UNCHANGED <<cli, args, world, fs0, fs, dirs, files, env, rendered, stdout>>

\* line 336: env = setup_environment(src, macros_dir, filters_dir)
SetupEnvironment ==
    /\ pc = "setup"
    /\ log' = Append(log, Ev("setup", idx))
    /\ LET r == setup_environment(fs, dirs, files[idx], DirOrNone(args.macros_dir), DirOrNone(args.filters_dir))
       IN IF r.status = "ok"
          THEN env' = r.env /\ pc' = "render" /\ UNCHANGED <<stderr, exitCode, diag>>
          ELSE env' = env /\ diag' \in r.failed /\ Die("render_error", ExitRenderError)
    /\ UNCHANGED <<cli, args, world, fs0, fs, dirs, files, context, idx, rendered, stdout>>

\* line 337: rendered = render_file(src.name, env, context)
RenderFile ==
    /\ pc = "render"
    /\ log' = Append(log, Ev("render", idx))
    /\ LET r == render_file(fs, dirs, files[idx])
       IN IF r.status = "ok"
          THEN rendered' = r.text /\ pc' = "write" /\ UNCHANGED <<stderr, exitCode, diag>>
          ELSE rendered' = rendered /\ diag' = Rel(<<Name(files[idx])>>) /\ Die("render_error", ExitRenderError)
    /\ UNCHANGED <<cli, args, world, fs0, fs, dirs, files, context, idx, env, stdout>>

\* lines 339-362: the rendered text is placed; the loop goes on to the next
\* file, and main() returns after the last one
WriteRendered ==
    /\ pc = "write"
    /\ LET st == PlaceFile([fs |-> fs, dirs |-> dirs, stdout |-> stdout, status |-> "ok", log |-> log],
                           args, world, idx, files[idx], rendered)
       IN /\ fs' = st.fs
          /\ dirs' = st.dirs
          /\ stdout' = st.stdout
          /\ log' = st.log
          /\ IF st.status # "ok" THEN idx' = idx /\ diag' = files[idx] /\ Die(st.status, ExitCodeOf(st.status))
             ELSE IF idx < Len(files) THEN idx' = idx + 1 /\ pc' = "setup" /\ UNCHANGED <<stderr, exitCode, diag>>
             ELSE idx' = idx + 1 /\ pc' = "exit" /\ exitCode' = ExitOk /\ UNCHANGED <<stderr, diag>>
    /\ UNCHANGED <<cli, args, world, fs0, files, context, env, rendered>>

Next ==
    \/ ValidateInputSources
    \/ LoadFrenderConfig
    \/ CollectFiles
    \/ CheckPlacement
    \/ LoadContext
    \/ SetupEnvironment
    \/ RenderFile
    \/ WriteRendered

Spec == Init /\ [][Next]_vars

\* ------------------------------------------------------------- properties
\* the history entries of one operation
Calls(op) == {k \in 1..Len(log) : log[k].op = op}

\* the calls of write_rendered that wrote a file or standard output
OkWrites == SelectSeq(log, LAMBDA e : e.op = "write" /\ e.ok)

\* the calls of write_rendered that wrote a file
FileWrites == SelectSeq(log, LAMBDA e : e.op = "write" /\ e.ok /\ e.mode # "stdout")

\* the run ended normally / ended with an error
Succeeded == pc = "exit" /\ exitCode = ExitOk
Failed == pc = "exit" /\ stderr # <<>>

\* the step the run died in
DiedIn(op) == Failed /\ log # <<>> /\ log[Len(log)].op = op

\* the run was rejected by lines 328-329
ManyFilesNoPlacement == Len(files) > 1 /\ ~Truthy(cli.output) /\ ~cli.overwrite

\* C1: when collect_files returned more than one file and neither
\* --overwrite nor --output is given, the run fails before any file is
\* rendered: no render_file and no write_rendered call, nothing on standard
\* output, no file changed.
C1_NothingBeforeRejection ==
    ManyFilesNoPlacement =>
        /\ pc \in {"check", "exit"}
        /\ (pc = "exit" => exitCode # ExitOk)
        /\ Calls("render") = {} /\ Calls("write") = {} /\ Calls("setup") = {}
        /\ fs = fs0
        /\ stdout = <<>>

\* the text the last successful write to a location left there
RECURSIVE LastText(_, _, _)
LastText(ws, loc, dflt) ==
    IF ws = <<>> THEN dflt
    ELSE IF ws[Len(ws)].dest = loc THEN ws[Len(ws)].text
    ELSE LastText(SubSeq(ws, 1, Len(ws) - 1), loc, dflt)

\* C2: fail fast without rollback.  Files are rendered and written one at a
\* time in collection order; when the step of the file at position N fails,
\* exactly the files before N have been written, every file holds what the
\* last write to it left (nothing is rolled back, nothing else is written),
\* and the run ends with a nonzero exit code.
C2_FailFastNoRollback ==
    /\ \A k \in 1..Len(OkWrites) : OkWrites[k].i = k
    /\ \A k \in Calls("render") : Cardinality({j \in Calls("render") : j <= k}) = log[k].i
    /\ DOMAIN fs = DOMAIN fs0 \cup {FileWrites[k].dest : k \in 1..Len(FileWrites)}
    /\ \A l \in DOMAIN fs : fs[l] = LastText(FileWrites, l, IF l \in DOMAIN fs0 THEN fs0[l] ELSE "")
    /\ (Failed /\ idx >= 1) => (Len(OkWrites) = idx - 1 /\ exitCode # ExitOk)
    /\ Succeeded => Len(OkWrites) = Len(files)

\* C2 witness: the step of the second or a later file failed after an
\* earlier file was written, and that file's output is still there
C2_Witness ==
    /\ Failed /\ idx >= 2
    /\ Len(FileWrites) >= 1
    /\ fs # fs0

\* the source's path relative to the root it was selected from: the searched
\* directory in directory mode, the working directory for a list file
SelectionRelParts(src) ==
    IF Truthy(cli.dir) THEN RelativeTo(src, cli.dir).parts
    ELSE SubSeq(Resolve(src), Len(Cwd) + 1, Len(Resolve(src)))

\* the destination the output-directory rule names for a source
RuleDest(src) ==
    IF Truthy(cli.input_file) \/ cli.list.k = "some" \/ cli.single_dir
    THEN Append(Resolve(cli.output), Name(src))
    ELSE Resolve(cli.output) \o SelectionRelParts(src)

\* C3: in output-directory mode the destination is output_dir/<basename> for
\* a single path, a comma list, or a list file or directory with
\* --single-dir; otherwise output_dir joined with the source's path relative
\* to the root that was searched.
C3_OutputDestinationRule ==
    \A k \in Calls("write") :
        log[k].mode = "output" => log[k].dest = RuleDest(files[log[k].i])

\* C4: in output-directory mode every destination written lies beneath the
\* output directory (the claim's statement; that the source is then never
\* the destination is the consequence the claim draws from it).
C4_DestinationBeneathOutput ==
    \A k \in Calls("write") :
        log[k].mode = "output" =>
            /\ IsPrefix(Resolve(cli.output), log[k].dest)
            /\ Len(log[k].dest) > Len(Resolve(cli.output))

\* the consequence C4 draws: in output-directory mode the source file is
\* never the destination
SourceNeverDestination ==
    \A k \in Calls("write") :
        log[k].mode = "output" => log[k].dest # Resolve(files[log[k].i])

\* C5: in overwrite mode, after a successful run every collected source
\* holds the rendered text of that source, and no other path is created or
\* modified.
C5_OverwriteResult ==
    (Succeeded /\ cli.overwrite) =>
        LET srcs == {Resolve(files[i]) : i \in 1..Len(files)}
        IN /\ DOMAIN fs = DOMAIN fs0
           /\ \A l \in DOMAIN fs : fs[l] = IF l \in srcs THEN RenderText(fs0[l]) ELSE fs0[l]

FirstPresent(given, cfgval, fallback) ==
    IF Truthy(given) THEN given ELSE IF Truthy(cfgval) THEN cfgval ELSE fallback
Persisted(key) == IF world.config.exists THEN world.config[key] ELSE NoPath

\* C7: the context file, the macro directory and the filter directory each
\* resolve to the command line's value, else the persisted configuration's,
\* else the fallback (".env"; absent for the directories); the context is
\* loaded from the resolved file.
C7_OptionPrecedence ==
    pc \notin {"validate", "config"} /\ SourcesValid(cli) =>
        /\ args.env_file = FirstPresent(cli.env_file, Persisted("ENV_FILE"), Rel(<<".env">>))
        /\ DirOrNone(args.macros_dir) = FirstPresent(cli.macros_dir, Persisted("MACROS_DIR"), NoPath)
        /\ DirOrNone(args.filters_dir) = FirstPresent(cli.filters_dir, Persisted("FILTERS_DIR"), NoPath)
        /\ (Truthy(cli.env_file) /\ context \notin {"unset", "empty"} => context = Name(cli.env_file))

\* C7 witness: the command line and the configuration both name a context
\* file and a macro directory, and the run used the command line's
C7_Witness ==
    /\ Succeeded
    /\ Truthy(cli.env_file) /\ Truthy(Persisted("ENV_FILE")) /\ cli.env_file # Persisted("ENV_FILE")
    /\ Truthy(cli.macros_dir) /\ Truthy(Persisted("MACROS_DIR"))
    /\ context = "e1"

\* C8: a command line with none or several input selections is rejected as
\* a usage error before the configuration is read and before any file is
\* collected, rendered or written; collect_files runs with exactly one
\* selection.
C8_UsageErrorFirst ==
    /\ NumSources(cli) # 1 =>
          /\ pc \in {"validate", "exit"}
          /\ (pc = "exit" => exitCode = ExitUsage /\ stderr = <<"usage">>)
          /\ \A k \in 1..Len(log) : log[k].op = "validate"
          /\ stdout = <<>> /\ fs = fs0 /\ args = cli /\ files = <<>>
    /\ Calls("collect") # {} => NumSources(args) = 1

\* C8 witness: several selections, a persisted configuration exists, the run
\* was rejected
C8_Witness ==
    /\ NumSources(cli) > 1 /\ world.config.exists
    /\ pc = "exit" /\ stderr = <<"usage">>

\* C9: in stdout placement a successful run writes to standard output only
\* the rendered content of the single file.
C9_StdoutOnlyContent ==
    (Succeeded /\ ~cli.overwrite /\ ~Truthy(cli.output)) =>
        stdout = <<OutLine("content", RenderText(fs0[Resolve(files[1])]), NoPath, NoPath)>>

\* C10: exit code 0 on success, one nonzero code for every recognized error
\* (a RenderError, and the configuration error of several files without
\* --overwrite or --output), another nonzero code for an unexpected error,
\* which no recognized error produces.
C10_ExitCodes ==
    pc = "exit" =>
        /\ (stderr = <<>> => exitCode = ExitOk)
        /\ (Failed => exitCode # ExitOk)
        /\ (Failed /\ stderr[Len(stderr)] = "unexpected" => exitCode = ExitUnexpected)
        /\ (Failed /\ stderr[Len(stderr)] = "render_error" => exitCode = ExitRenderError)
        /\ (DiedIn("check") => exitCode = ExitRenderError)
        /\ (Failed /\ stderr[Len(stderr)] # "unexpected" /\ ~DiedIn("validate") => exitCode # ExitUnexpected)

\* the paths the command line names, in the order collect_files checks
\* them: the single file, the comma list's files, the list file and (when it
\* can be read) the files it lists
NamedFiles ==
    (IF Truthy(cli.input_file) THEN <<cli.input_file>> ELSE <<>>)
    \o (IF cli.list.k = "some" THEN cli.list.items ELSE <<>>)
    \o (IF Truthy(cli.file_list) THEN <<cli.file_list>> ELSE <<>>)
    \o (IF Truthy(cli.file_list) /\ IsFile(fs0, Dirs0, cli.file_list) /\ world.readable THEN world.flist ELSE <<>>)

\* the named paths that are not there when the run starts
MissingNamed ==
    {NamedFiles[i] : i \in {j \in 1..Len(NamedFiles) : ~IsFile(fs0, Dirs0, NamedFiles[j])}}
    \cup (IF Truthy(cli.dir) /\ ~IsDir(Dirs0, cli.dir) THEN {cli.dir} ELSE {})

\* C11: eager validation.  Every named file is checked to be a regular file
\* and the named directory to be a directory before any file is rendered;
\* when a check fails collect_files raises an error naming a missing path
\* and the run renders and writes nothing, also when earlier named files
\* exist.
C11_EagerValidation ==
    Calls("collect") # {} =>
        /\ MissingNamed # {} =>
              /\ DiedIn("collect") /\ exitCode = ExitRenderError
              /\ diag \in MissingNamed
              /\ files = <<>>
              /\ Calls("setup") = {} /\ Calls("render") = {} /\ Calls("write") = {}
              /\ fs = fs0 /\ dirs = Dirs0
        /\ \A i \in 1..Len(files) : IsFile(fs0, Dirs0, files[i])

\* C11 witness: the comma list names an existing file, then a missing one;
\* the run was to overwrite, and died in collect_files naming the second
C11_Witness ==
    /\ DiedIn("collect") /\ cli.overwrite
    /\ cli.list.k = "some" /\ Len(cli.list.items) = 2
    /\ IsFile(fs0, Dirs0, cli.list.items[1])
    /\ diag = cli.list.items[2]

\* the regular files directory collection is to return: the direct children
\* of the directory (recursive off) or its whole subtree (recursive on),
\* minus the files whose basename matches an exclude pattern
ExpectedDirFiles ==
    LET dl == Resolve(cli.dir)
    IN {l \in DOMAIN fs0 : /\ IsPrefix(dl, l) /\ Len(l) > Len(dl)
                           /\ (cli.recursive \/ Len(l) = Len(dl) + 1)
                           /\ ~\E pat \in cli.exclude : FnMatch(l[Len(l)], pat)}

\* C12: directory collection returns exactly the regular files that are
\* direct children of the directory (recursive off) or of the full subtree
\* (recursive on), minus those whose basename matches an exclude pattern;
\* no directory is returned, and no file of a subdirectory when recursive
\* is off.
C12_DirectoryCollection ==
    (Truthy(cli.dir) /\ SourcesValid(cli) /\ IsDir(Dirs0, cli.dir) /\ Calls("collect") # {}) =>
        IF ExpectedDirFiles = {}
        THEN files = <<>> /\ DiedIn("collect")
        ELSE /\ {Resolve(files[i]) : i \in 1..Len(files)} = ExpectedDirFiles
             /\ Len(files) = Cardinality(ExpectedDirFiles)
             /\ \A i \in 1..Len(files) : /\ Resolve(files[i]) \notin Dirs0
                                         /\ CanRelativeTo(files[i], cli.dir)
                                         /\ (~cli.recursive => Len(files[i].parts) = Len(cli.dir.parts) + 1)

\* C12 witness: a recursive collection with an exclude pattern returned the
\* files of the directory and of its subdirectory, without the excluded one
\* and without the subdirectory itself
C12_Witness ==
    /\ Truthy(cli.dir) /\ cli.recursive /\ cli.exclude = {"b"}
    /\ Len(files) = 2
    /\ {Resolve(files[i]) : i \in 1..Len(files)} = {<<"w", "s", "a">>, <<"w", "s", "t", "a">>}

\* the context path of the run exists / exists and cannot be parsed
ContextExists == Exists(fs0, Dirs0, args.env_file)
ContextUnparsable ==
    /\ ContextExists
    /\ (IsDir(Dirs0, args.env_file) \/ fs0[Resolve(args.env_file)] = "ctx_bad")

\* C13: a failure to parse an existing context file is raised as the
\* run's recognized error carrying the file path, and aborts the run before
\* any file is rendered or written; a context path that does not exist
\* yields an empty mapping and the run proceeds.
C13_ContextLoadFailure ==
    Calls("context") # {} =>
        /\ Cardinality(Calls("context")) = 1
        /\ ContextUnparsable =>
              /\ DiedIn("context")
              /\ exitCode = ExitRenderError /\ stderr = <<"render_error">>
              /\ diag = args.env_file
              /\ Calls("setup") = {} /\ Calls("render") = {} /\ Calls("write") = {}
              /\ fs = fs0 /\ dirs = Dirs0
              /\ \A k \in 1..Len(stdout) : stdout[k].kind # "content"
        /\ ~ContextExists =>
              /\ context = "empty"
              /\ ~DiedIn("context")
              /\ pc \in {"setup", "render", "write", "exit"}
              /\ pc = "exit" => Calls("setup") # {}

\* C13 witness: the run died loading the context file e2 named by the
\* configuration file
C13_Witness ==
    /\ DiedIn("context") /\ exitCode = ExitRenderError
    /\ diag = Rel(<<"e2">>) /\ ContextUnparsable
    /\ files # <<>>

\* C14: the sequence of paths returned by collect_files is deduplicated by
\* source: no path occurs in it more than once, also when the comma list or
\* the list file names the same file several times, so no source is
\* rendered or written twice in one run.
C14_NoDuplicates ==
    /\ \A i, j \in 1..Len(files) : files[i] = files[j] => i = j
    /\ \A k, l \in Calls("render") \cup Calls("write") :
          (log[k].op = log[l].op /\ files[log[k].i] = files[log[l].i]) => k = l

\* the calls of setup_environment for position i of files
SetupCalls(i) == {k \in Calls("setup") : log[k].i = i}

\* a macro file, as the loader finds it for source src, or a filter file
\* does not load
ExtensionBroken(src) ==
    LET m == DirOrNone(args.macros_dir)
        f == DirOrNone(args.filters_dir)
    IN \/ \E p \in ExtensionFiles(fs0, Dirs0, m, {"k.j2"}) :
              RenderFails(fs0[Resolve(MacroSource(fs0, Dirs0, src, m, p))])
       \/ \E p \in ExtensionFiles(fs0, Dirs0, f, {"g.py"}) : RenderFails(fs0[Resolve(p)])

\* C15 as stated: in every run the context mapping and the extension
\* registry are each built exactly once, before the first step of the
\* per-file loop, and are not rebuilt while the loop runs; an extension-load
\* failure is therefore detected before the first file is rendered.
C15_BuiltOnce ==
    /\ Cardinality(Calls("context")) <= 1
    /\ Cardinality(Calls("setup")) <= 1
    /\ \A k \in Calls("setup"), r \in Calls("render") : k < r
    /\ DiedIn("setup") => Calls("render") = {}

\* C15 amended: the context mapping is built exactly once, before the
\* per-file loop, and is not changed while the loop runs; the extension
\* registry is built by setup_environment once for every file of the loop,
\* immediately before that file is rendered, so an extension-load failure
\* for a file is detected before that file is rendered and stops the run,
\* possibly after earlier files were rendered and written.
C15_BuiltPerFile ==
    /\ Cardinality(Calls("context")) <= 1
    /\ \A k \in Calls("setup") \cup Calls("render") \cup Calls("write") :
          \E c \in Calls("context") : c < k
    /\ Calls("setup") # {} =>
          context = (IF ContextExists THEN Name(args.env_file) ELSE "empty")
    /\ \A i \in 1..Len(files) : Cardinality(SetupCalls(i)) <= 1
    /\ \A k \in Calls("render") : k > 1 /\ log[k - 1].op = "setup" /\ log[k - 1].i = log[k].i
    /\ Succeeded => \A i \in 1..Len(files) : Cardinality(SetupCalls(i)) = 1
    /\ \A k \in Calls("setup") :
          ExtensionBroken(files[log[k].i]) =>
              /\ k = Len(log) /\ DiedIn("setup") /\ exitCode = ExitRenderError
              /\ \A r \in Calls("render") : log[r].i < log[k].i

\* C15 witness: the registry was built for the first file, which was
\* rendered and written, and building it again for the second file failed
C15_Witness ==
    /\ DiedIn("setup") /\ idx = 2
    /\ Cardinality(Calls("setup")) = 2
    /\ Calls("render") # {} /\ Len(FileWrites) = 1
    /\ ExtensionBroken(files[2]) /\ ~ExtensionBroken(files[1])

\* the output-directory writes of the run that succeeded
OutputWrites == {k \in Calls("write") : log[k].mode = "output" /\ log[k].ok}

\* C16: in output-directory mode no two distinct collected source files are
\* written to the same destination path in one run, so after a successful
\* run there are as many destination files as distinct collected source
\* files (a destination written for two sources holds the rendering of the
\* later one only).
C16_DistinctDestinations ==
    /\ \A k, l \in OutputWrites :
          Resolve(files[log[k].i]) # Resolve(files[log[l].i]) => log[k].dest # log[l].dest
    /\ (Succeeded /\ Truthy(cli.output) /\ ~cli.overwrite) =>
          Cardinality({log[k].dest : k \in OutputWrites})
              >= Cardinality({Resolve(files[i]) : i \in 1..Len(files)})

====
